---- MODULE Spec2Model ----
(***************************************************************************)
(* Authentication / session-token lifecycle of the REST API:               *)
(* AuthController.register / login / refresh / logout over the user store, *)
(* with the JWT issuer (generateToken) and jwt.verify.                      *)
(*                                                                         *)
(* Time is the wall clock read by Date.now() (milliseconds).  Nothing in   *)
(* the code makes the clock advance between two reads, so the clock moves  *)
(* only by the Tick actions and two requests may see the same millisecond. *)
(* A JWT is modelled by the data that determines its string: the payload   *)
(* {userId, timestamp, iat, exp} and whether its signature verifies.       *)
(***************************************************************************)
EXTENDS Integers, Sequences, FiniteSets, TLC

\* ---------------------------------------------------------------- bounds
MaxUsers == 2
MaxSessions == 3
MaxMs == 1
MaxDays == 1
MaxResources == 2
MaxRequests == 3

\* ------------------------------------------------------ program constants
JWT_EXPIRES_IN == 3600
JWT_REFRESH_EXPIRES_IN == 86400

DayMs == JWT_REFRESH_EXPIRES_IN * 1000

\* ----------------------------------------------------------------- state
VARIABLES
    users,      \* the Users collection: users[i] is the document with _id i
    now,        \* Date.now(), in milliseconds
    secretSet,  \* process.env.JWT_SECRET is defined
    last,       \* the last request and the response that was sent for it
    hist,       \* history of one refresh token: hist.tok is the token followed,
                \* hist.refreshed: a refresh has accepted it,
                \* hist.left: it was in its owner's ledger and was removed from it,
                \* hist.loggedOut: a logout has accepted it;
                \* and of one scripted client: hist.script is the sequence of
                \* requests it makes, hist.step how many were answered,
                \* hist.issued the refresh tokens it was given, in order
    resources,  \* the Posts and Comments collections: resources[i] is the
                \* document with _id i, of collection resources[i].kind
    conc        \* requests that run interleaved: conc.reqs[i] is the i-th
                \* request with its position in its handler and its locals,
                \* conc.ver[id] the version (__v) of the user document id,
                \* conc.live the refresh tokens handed out in a success
                \* response and neither accepted by a refresh or logout nor
                \* cleared by a breach clear since

vars == <<users, now, secretSet, last, hist, resources, conc>>

\* ---------------------------------------------------------------- tokens
\* A token string that is absent from the request body (falsy).
MissingToken == [userId |-> 0, timestamp |-> 0, iat |-> 0, exp |-> 0, sig |-> "missing"]
\* A string that is not a JWT at all.
GarbageToken == [userId |-> 0, timestamp |-> 0, iat |-> 0, exp |-> 0, sig |-> "malformed"]

\* jwt.sign(payload, secret, {expiresIn}) at clock t: iat is in seconds.
sign(userId, timestamp, expiresIn, t) ==
    [userId |-> userId, timestamp |-> timestamp,
     iat |-> t \div 1000, exp |-> (t \div 1000) + expiresIn, sig |-> "valid"]

\* generateToken(userId) at clock t (getSecret has succeeded).  The call is
\* synchronous; its reads of the clock are taken to give the same value t.
generateToken(userId, t) ==
    [token |-> sign(userId, t, JWT_EXPIRES_IN, t),
     refreshToken |-> sign(userId, t + 1, JWT_REFRESH_EXPIRES_IN, t)]

NoTokens == [token |-> MissingToken, refreshToken |-> MissingToken]

\* Mutant of verify: the signature of a well-formed token is not checked.
verify_anySignature(tok, t) ==
    IF tok.sig \in {"missing", "malformed"} THEN "JsonWebTokenError"
    ELSE IF (t \div 1000) >= tok.exp THEN "TokenExpiredError"
    ELSE "ok"

\* Mutant of verify: the expiry of the token is not checked.
verify_noExpiry(tok, t) == IF tok.sig # "valid" THEN "JsonWebTokenError" ELSE "ok"

\* jwt.verify(token, secret) at clock t: "ok" or the error it throws.
verify(tok, t) ==
    IF tok.sig # "valid" THEN "JsonWebTokenError"
    ELSE IF (t \div 1000) >= tok.exp THEN "TokenExpiredError"
    ELSE "ok"

\* ------------------------------------------------------------ user store
\* userSchema: email is trimmed and lower-cased when stored and when queried.
normalizeEmail(e) == IF e = "A@x" THEN "a@x" ELSE e

\* bcrypt.hash / bcrypt.compare as a one-way pair.
hash(p) == <<"bcrypt", p>>
compare(p, h) == h = hash(p)

\* What is left at the _id of a deleted user: ids are never used again.
Tombstone == [username |-> "", email |-> "", password |-> hash(""), refreshToken |-> <<>>]

\* The _ids of the documents of the Users collection.
UserIds == {i \in 1..Len(users) : users[i] # Tombstone}

\* Mutant of findByEmailOrUsername: only the email is looked up.
findByEmailOrUsername_emailOnly(email, username) ==
    {i \in UserIds : users[i].email = normalizeEmail(email)}

\* UserModel.findOne({$or: [{email}, {username}]}): the matching ids.
findByEmailOrUsername(email, username) ==
    {i \in UserIds : users[i].email = normalizeEmail(email) \/ users[i].username = username}

\* Mutant of findByEmail: the filter is dropped, any user matches.
findByEmail_any(email) == UserIds

\* UserModel.findOne({email}): the matching ids.
findByEmail(email) == {i \in UserIds : users[i].email = normalizeEmail(email)}

\* The ledger (user.refreshToken) of the user with _id id, <<>> if there is none.
LedgerOf(id) == IF id \in UserIds THEN users[id].refreshToken ELSE <<>>

\* The number of ledger entries of the whole store.
RECURSIVE SessionsOf(_)
SessionsOf(s) == IF s = <<>> THEN 0 ELSE Len(Head(s).refreshToken) + SessionsOf(Tail(s))

Sessions == SessionsOf(users)

\* Mutant of includes: the membership test always passes.
includes_always(ledger, tok) == TRUE

\* Array.prototype.includes on the ledger.
includes(ledger, tok) == \E k \in 1..Len(ledger) : ledger[k] = tok

\* Mutant of filterOut: the filter predicate is inverted (rt === tok).
filterOut_inverted(ledger, tok) == SelectSeq(ledger, LAMBDA rt : rt = tok)

\* ledger.filter(rt => rt !== tok)
filterOut(ledger, tok) == SelectSeq(ledger, LAMBDA rt : rt # tok)

\* Mutant of breachLedger: the ledger is kept.
breachLedger_keep(ledger) == ledger

\* refresh, token not in the ledger: user.refreshToken = []
breachLedger(ledger) == <<>>

\* Mutant of push: the ledger is replaced by the new token.
push_replace(ledger, tok) == <<tok>>

\* login: user.refreshToken.push(tokens.refreshToken)
push(ledger, tok) == Append(ledger, tok)

\* Mutant of firstLedger: the ledger update of register is lost.
firstLedger_empty(tok) == <<>>

\* register: findByIdAndUpdate(user._id, {refreshToken: [tokens.refreshToken]})
firstLedger(tok) == <<tok>>

\* refresh, token in the ledger: filter the old token out, push the new one.
rotate(ledger, old, new) == Append(filterOut(ledger, old), new)

\* Mutant of missing: no field is ever found missing.
missing_never(field) == FALSE

\* !field on a request body field: absent or empty.
missing(field) == field = ""

\* Mutant of authFailure: the two cases get different messages.
authFailure_leaky(case) ==
    IF case = "no user" THEN "User not found" ELSE "Invalid email or password"

\* login's answer when no user has the email ("no user") and when the
\* password does not match ("wrong password").
authFailure(case) == "Invalid email or password"

\* Mutant of logoutError: the error is recognised by its name, so that an
\* expired token is not taken for a token error.
logoutError_byName(err) ==
    IF err = "JsonWebTokenError"
    THEN [status |-> 401, error |-> "Invalid refresh token"]
    ELSE [status |-> 500, error |-> "Logout failed"]

\* Mutant of logoutError: every thrown error is answered as a token error.
logoutError_all401(err) == [status |-> 401, error |-> "Invalid refresh token"]

\* logout's catch block: an instance of jwt.JsonWebTokenError (TokenExpiredError
\* is a subclass of it) is answered 401, every other error 500.
logoutError(err) ==
    IF err \in {"JsonWebTokenError", "TokenExpiredError"}
    THEN [status |-> 401, error |-> "Invalid refresh token"]
    ELSE [status |-> 500, error |-> "Logout failed"]

\* tok is in the ledger of some user of store s.
InSomeLedger(s, tok) == \E i \in 1..Len(s) : includes(s[i].refreshToken, tok)

\* ------------------------------------------------------- request inputs
Usernames == {"", "ann", "bob"}
Emails == {"", "a@x", "A@x", "b@x"}
Passwords == {"", "pw1", "pw2"}
RegisterPasswords == {"", "pw1"}

\* The clock values the Tick actions reach.
Times == (0..MaxMs) \cup {d * DayMs : d \in 1..MaxDays}

\* Tokens a caller can present: nothing, a non-JWT string, every token the
\* server can have signed up to now for an id (for refresh tokens, one id
\* beyond the bound stands for a user that does not exist), and a token whose
\* signature does not verify.  A correctly signed token that the server never
\* issued is one signed with the secret by the caller, as the tests do.
SignedTokens ==
    {generateToken(u, t).refreshToken : u \in 1..(MaxUsers + 1), t \in {x \in Times : x <= now}}
    \cup {generateToken(u, t).token : u \in 1..MaxUsers, t \in {x \in Times : x <= now}}

TokenInputs ==
    {MissingToken, GarbageToken} \cup SignedTokens
    \cup {[generateToken(1, 0).refreshToken EXCEPT !.sig = "bad"]}

\* ------------------------------------------------------------- responses
\* before is the ledger, when the request arrived, of the user the request
\* names (the token's userId, the login's email), <<>> when there is none.
\* For the middleware: header is the Authorization header in parts, next
\* says that next() was called (status 0: no response was sent), userId is
\* req.userId (0: unset).  For a request on a post or comment: kind is the
\* collection, id is req.params.id, body is req.body ("" and 0: field absent).
Response(op, username, email, password, tok, before, status, error, tokens, dbOps, fault) ==
    [op |-> op, username |-> username, email |-> email,
     password |-> password, tok |-> tok, before |-> before, status |-> status,
     error |-> error, tokens |-> tokens, dbOps |-> dbOps, fault |-> fault,
     header |-> <<>>, next |-> FALSE, userId |-> 0,
     kind |-> "", id |-> 0, body |-> [content |-> "", userId |-> 0]]

\* Mutant of sendError: the error path sends no response.
sendError_silent(code) == 0

\* sendError(res, message, code): code defaults to 400.
sendError(code) == IF code = 0 THEN 400 ELSE code

\* No request is being handled.
NoRequest == [op |-> "none", username |-> "", email |-> "", password |-> "",
              tok |-> MissingToken, before |-> <<>>, status |-> 0, error |-> "", tokens |-> NoTokens,
              dbOps |-> 0, fault |-> "none", header |-> <<>>, next |-> FALSE, userId |-> 0,
              kind |-> "", id |-> 0, body |-> [content |-> "", userId |-> 0]]

\* The locals of a request that has just arrived: pc is the position in the
\* handler, id, ledger and v are the document the handler has loaded, passed
\* says that the handler's check on what it loaded (no such user for
\* register, the token is in the ledger for refresh and logout) let it go on.
FreeRequest == [op |-> "none", pc |-> "free", username |-> "", email |-> "",
                password |-> "", tok |-> MissingToken, id |-> 0, ledger |-> <<>>,
                v |-> 0, passed |-> FALSE, tokens |-> NoTokens, status |-> 0, error |-> ""]

NoConcurrency == [reqs |-> <<>>, ver |-> <<>>, live |-> {}]

Idle == last.op = "none"

Init ==
    /\ users = <<>>
    /\ now = 0
    /\ secretSet = TRUE
    /\ last = NoRequest
    /\ resources = <<>>
    /\ conc = NoConcurrency
    /\ hist = [tok |-> MissingToken, refreshed |-> FALSE, left |-> FALSE,
               loggedOut |-> FALSE,
               script |-> <<>>, step |-> 0, issued |-> <<>>]

\* ----------------------------------------------------------- environment
\* The clock advances by a millisecond.
Tick ==
    /\ Idle
    /\ now < MaxMs
    /\ now' = now + 1
    /\ UNCHANGED <<users, secretSet, last, hist, resources, conc>>

\* The clock advances to the next multiple of the refresh-token lifetime:
\* every refresh token signed before has expired then.
TickDay ==
    /\ Idle
    /\ (now \div DayMs) < MaxDays
    /\ now' = ((now \div DayMs) + 1) * DayMs
    /\ UNCHANGED <<users, secretSet, last, hist, resources, conc>>

\* process.env.JWT_SECRET is deleted or restored.
SetSecret ==
    /\ Idle
    /\ secretSet' = ~secretSet
    /\ UNCHANGED <<users, now, last, hist, resources, conc>>

\* -------------------------------------------------------------- handlers
\* What a request adds to the history of the token followed: accepted says
\* that the request is a refresh that accepted it, revoked that it is a logout
\* that accepted it.
Record(after, accepted, revoked) ==
    hist' = [hist EXCEPT
                !.refreshed = @ \/ accepted,
                !.loggedOut = @ \/ revoked,
                !.left = @ \/ (InSomeLedger(users, hist.tok) /\ ~InSomeLedger(after, hist.tok))]

\* AuthController.register.  failAt = k makes the k-th store operation of
\* the request throw (0: none does).
register(username, email, password, failAt) ==
    LET Reply(status, error, tokens, dbOps, fault) ==
            Response("register", username, email, password, MissingToken, <<>>,
                     status, error, tokens, dbOps, fault)
        id == Len(users) + 1
        created == Append(users, [username |-> username,
                                  email |-> normalizeEmail(email),
                                  password |-> hash(password),
                                  refreshToken |-> <<>>])
        tokens == generateToken(id, now)
    IN
    /\ UNCHANGED <<now, secretSet, resources, conc>>
    /\ IF missing(username) \/ missing(email) \/ missing(password) THEN
           /\ users' = users
           /\ last' = Reply(sendError(401), "Username, email and password are required",
                            NoTokens, 0, "none")
       ELSE IF failAt = 1 THEN
           /\ users' = users
           /\ last' = Reply(sendError(400), "store error", NoTokens, 1, "db")
       ELSE IF findByEmailOrUsername(email, username) # {} THEN
           /\ users' = users
           /\ last' = Reply(sendError(409), "User with this email or username already exists",
                            NoTokens, 1, "none")
       ELSE IF failAt = 2 THEN
           /\ users' = users
           /\ last' = Reply(sendError(400), "store error", NoTokens, 2, "db")
       ELSE
           /\ Len(users) < MaxUsers
           /\ Sessions < MaxSessions
           /\ IF ~secretSet THEN
                  /\ users' = created
                  /\ last' = Reply(sendError(400),
                                   "JWT_SECRET environment variable is not defined",
                                   NoTokens, 2, "secret")
              ELSE IF failAt = 3 THEN
                  /\ users' = created
                  /\ last' = Reply(sendError(400), "store error", NoTokens, 3, "db")
              ELSE
                  /\ users' = [created EXCEPT ![id].refreshToken = firstLedger(tokens.refreshToken)]
                  /\ last' = Reply(201, "", tokens, 3, "none")
    /\ Record(users', FALSE, FALSE)

\* AuthController.login
login(email, password, failAt) ==
    LET found == findByEmail(email)
        Reply(status, error, tokens, dbOps, fault) ==
            Response("login", "", email, password, MissingToken,
                     IF found = {} THEN <<>> ELSE users[CHOOSE i \in found : TRUE].refreshToken,
                     status, error, tokens, dbOps, fault)
    IN
    /\ UNCHANGED <<now, secretSet, resources, conc>>
    /\ IF missing(email) \/ missing(password) THEN
           /\ users' = users
           /\ last' = Reply(sendError(0), "Email and password are required", NoTokens, 0, "none")
       ELSE IF failAt = 1 THEN
           /\ users' = users
           /\ last' = Reply(sendError(0), "Login failed", NoTokens, 1, "db")
       ELSE IF found = {} THEN
           /\ users' = users
           /\ last' = Reply(sendError(0), authFailure("no user"), NoTokens, 1, "none")
       ELSE
           LET id == CHOOSE i \in found : TRUE
               user == users[id]
               tokens == generateToken(id, now)
           IN
           IF ~compare(password, user.password) THEN
               /\ users' = users
               /\ last' = Reply(sendError(0), authFailure("wrong password"), NoTokens, 1, "none")
           ELSE IF ~secretSet THEN
               /\ users' = users
               /\ last' = Reply(sendError(0), "Login failed", NoTokens, 1, "secret")
           ELSE IF failAt = 2 THEN
               /\ users' = users
               /\ last' = Reply(sendError(0), "Login failed", NoTokens, 2, "db")
           ELSE
               /\ Sessions < MaxSessions
               /\ users' = [users EXCEPT ![id].refreshToken =
                                push(user.refreshToken, tokens.refreshToken)]
               /\ last' = Reply(200, "", tokens, 2, "none")
    /\ Record(users', FALSE, FALSE)

\* AuthController.refresh
refresh(refreshToken, failAt) ==
    LET Reply(status, error, tokens, dbOps, fault) ==
            Response("refresh", "", "", "", refreshToken, LedgerOf(refreshToken.userId),
                     status, error, tokens, dbOps, fault)
        Invalid(dbOps, fault) ==
            Reply(sendError(401), "Invalid refresh token", NoTokens, dbOps, fault)
        id == refreshToken.userId
    IN
    /\ UNCHANGED <<now, secretSet, resources, conc>>
    /\ IF refreshToken.sig = "missing" THEN
           /\ users' = users
           /\ last' = Reply(sendError(401), "Refresh token is required", NoTokens, 0, "none")
       ELSE IF ~secretSet THEN
           /\ users' = users
           /\ last' = Invalid(0, "secret")
       ELSE IF verify(refreshToken, now) # "ok" THEN
           /\ users' = users
           /\ last' = Invalid(0, "none")
       ELSE IF failAt = 1 THEN
           /\ users' = users
           /\ last' = Invalid(1, "db")
       ELSE IF id \notin UserIds THEN
           /\ users' = users
           /\ last' = Invalid(1, "none")
       ELSE IF ~includes(users[id].refreshToken, refreshToken) THEN
           /\ IF failAt = 2 THEN
                  /\ users' = users
                  /\ last' = Invalid(2, "db")
              ELSE
                  /\ users' = [users EXCEPT ![id].refreshToken = breachLedger(@)]
                  /\ last' = Invalid(2, "none")
       ELSE
           LET tokens == generateToken(id, now) IN
           IF failAt = 2 THEN
               /\ users' = users
               /\ last' = Invalid(2, "db")
           ELSE
               /\ users' = [users EXCEPT ![id].refreshToken =
                                rotate(@, refreshToken, tokens.refreshToken)]
               /\ last' = Reply(200, "", tokens, 2, "none")
    /\ Record(users', last'.status = 200 /\ refreshToken = hist.tok, FALSE)

\* AuthController.logout
logout(refreshToken, failAt) ==
    LET Reply(status, error, dbOps, fault) ==
            Response("logout", "", "", "", refreshToken, LedgerOf(refreshToken.userId),
                     status, error, NoTokens, dbOps, fault)
        Invalid(dbOps) == Reply(sendError(401), "Invalid refresh token", dbOps, "none")
        Caught(err, dbOps, fault) ==
            Reply(sendError(logoutError(err).status), logoutError(err).error, dbOps, fault)
        Failed(dbOps, fault) == Caught(IF fault = "db" THEN "MongoError" ELSE "Error", dbOps, fault)
        id == refreshToken.userId
    IN
    /\ UNCHANGED <<now, secretSet, resources, conc>>
    /\ IF refreshToken.sig = "missing" THEN
           /\ users' = users
           /\ last' = Reply(sendError(401), "Refresh token is required", 0, "none")
       ELSE IF ~secretSet THEN
           /\ users' = users
           /\ last' = Failed(0, "secret")
       ELSE IF verify(refreshToken, now) # "ok" THEN
           /\ users' = users
           /\ last' = Caught(verify(refreshToken, now), 0, "none")
       ELSE IF failAt = 1 THEN
           /\ users' = users
           /\ last' = Failed(1, "db")
       ELSE IF id \notin UserIds THEN
           /\ users' = users
           /\ last' = Invalid(1)
       ELSE IF ~includes(users[id].refreshToken, refreshToken) THEN
           /\ users' = users
           /\ last' = Invalid(1)
       ELSE IF failAt = 2 THEN
           /\ users' = users
           /\ last' = Failed(2, "db")
       ELSE
           /\ users' = [users EXCEPT ![id].refreshToken = filterOut(@, refreshToken)]
           /\ last' = Reply(200, "Logged out successfully", 2, "none")
    /\ Record(users', FALSE, last'.status = 200 /\ refreshToken = hist.tok)

\* DELETE /user/:id (UserController.deleteItem) for an existing user: the
\* document is removed, its ledger with it.
deleteUser(id) ==
    /\ users' = [users EXCEPT ![id] = Tombstone]
    /\ Record(users', FALSE, FALSE)
    /\ UNCHANGED <<now, secretSet, last, resources, conc>>

\* ------------------------------------------------------------ middleware
\* The key authMiddleware verifies with: process.env.JWT_SECRET || "secretkey".
\* A signature is named by the key that made it: "valid" is the configured
\* secret's, "secretkey" that of the literal fallback.
middlewareSecret == IF secretSet THEN "valid" ELSE "secretkey"

\* Mutant of jwtVerify: a token is refused when its user is not in the store.
jwtVerify_userExists(tok, key, t) ==
    IF tok.sig # key THEN "JsonWebTokenError"
    ELSE IF (t \div 1000) >= tok.exp THEN "TokenExpiredError"
    ELSE IF tok.userId \notin UserIds THEN "JsonWebTokenError"
    ELSE "ok"

\* Mutant of jwtVerify: the expiry of the token is not checked.
jwtVerify_noExpiry(tok, key, t) == IF tok.sig # key THEN "JsonWebTokenError" ELSE "ok"

\* jwt.verify(token, key) at clock t: "ok" or the error it throws.
jwtVerify(tok, key, t) ==
    IF tok.sig # key THEN "JsonWebTokenError"
    ELSE IF (t \div 1000) >= tok.exp THEN "TokenExpiredError"
    ELSE "ok"

\* authMiddleware: its response, or that it called next() with req.userId
\* set.  header is authHeader.split(" "), the parts of the Authorization
\* header, <<>> when the header is absent or empty; the token part is a
\* token, the other parts are words.
authReply(header) ==
    LET token == IF Len(header) = 2 THEN header[2] ELSE MissingToken
        Reply(status, error) ==
            [Response("authenticate", "", "", "", token, <<>>, status, error, NoTokens, 0, "none")
                EXCEPT !.header = header]
        result == jwtVerify(token, middlewareSecret, now)
    IN
    IF header = <<>> THEN
        Reply(401, "Access denied. No token provided.")
    ELSE IF Len(header) # 2 \/ header[1] # "Bearer" THEN
        Reply(401, "Access denied. Invalid token format.")
    ELSE IF result = "ok" THEN
        [Reply(0, "") EXCEPT !.next = TRUE, !.userId = token.userId]
    ELSE IF result = "TokenExpiredError" THEN
        Reply(401, "Access denied. Token expired.")
    ELSE
        Reply(401, "Access denied. Invalid token.")

\* authMiddleware on its own: what it answers, or that it calls next().
authMiddleware(header) ==
    /\ last' = authReply(header)
    /\ UNCHANGED <<users, now, secretSet, hist, resources, conc>>

\* An access token for user 1 that a caller signed with the key "secretkey".
ForgedToken == [generateToken(1, 0).token EXCEPT !.sig = "secretkey"]

\* The Authorization headers a caller can send: none, one word, another
\* scheme, the scheme in lower case, three parts, and "Bearer <token>".
Headers ==
    {<<>>, <<"Bearer">>, <<"Basic", generateToken(1, 0).token>>,
     <<"bearer", generateToken(1, 0).token>>,
     <<"Bearer", generateToken(1, 0).token, "x">>}
    \cup {<<"Bearer", tk>> : tk \in TokenInputs \cup {ForgedToken}}

\* ------------------------------------------------------------- requests
\* Requests are handled one at a time, each to completion.  A failure
\* planned for a store operation that the request does not reach is the
\* request without a failure: it is taken once, as failAt = 0.
Reached(failAt) == failAt = 0 \/ last'.fault = "db"

Register ==
    /\ Idle
    /\ \E u \in Usernames, e \in Emails, p \in RegisterPasswords, f \in 0..3 :
          register(u, e, p, f) /\ Reached(f)
Login ==
    /\ Idle
    /\ \E e \in Emails, p \in Passwords, f \in 0..2 : login(e, p, f) /\ Reached(f)
Refresh ==
    /\ Idle
    /\ \E tk \in TokenInputs, f \in 0..2 : refresh(tk, f) /\ Reached(f)
Logout ==
    /\ Idle
    /\ \E tk \in TokenInputs, f \in 0..2 : logout(tk, f) /\ Reached(f)

\* A request to a protected endpoint reaches the middleware.
Authenticate ==
    /\ Idle
    /\ \E h \in Headers : authMiddleware(h)

\* The response has been sent; the next request can be handled.
Done ==
    /\ ~Idle
    /\ last' = NoRequest
    /\ UNCHANGED <<users, now, secretSet, hist, resources, conc>>

Next ==
    Register \/ Login \/ Refresh \/ Logout \/ Authenticate \/ Done \/ Tick \/ TickDay \/ SetSecret

Spec == Init /\ [][Next]_vars

\* The same program, with the history of one refresh token of user 1 recorded.
InitHist ==
    /\ users = <<>>
    /\ now = 0
    /\ secretSet = TRUE
    /\ last = NoRequest
    /\ resources = <<>>
    /\ conc = NoConcurrency
    /\ \E t \in Times :
          hist = [tok |-> generateToken(1, t).refreshToken, refreshed |-> FALSE, left |-> FALSE,
                  loggedOut |-> FALSE,
                  script |-> <<>>, step |-> 0, issued |-> <<>>]

SpecHist == InitHist /\ [][Next]_vars

\* -------------------------------------------------- interleaved requests
\* The handlers of AuthController are async functions: another request can
\* run wherever a handler awaits the store.  Each step below is one store
\* operation together with the synchronous code of the handler around it;
\* the code that reads the clock (generateToken) is a step of its own.

\* The version key of the user schema (Mongoose's default): save() of a
\* document whose array was assigned carries the loaded __v in its filter and
\* throws a VersionError when the stored document has another.
versionKey == TRUE

\* The store refuses a second document with the email or the username of an
\* existing one (unique: true, on both paths of userSchema).
duplicateKey(email, username) ==
    \E i \in UserIds : users[i].email = normalizeEmail(email) \/ users[i].username = username

\* save() of an assigned array finds the document at another version.
versionConflict(id, v) == versionKey /\ conc.ver[id] # v

\* The request of slot i answers: a success hands its refresh token out.
Answer(r, status, error, tokens) ==
    [r EXCEPT !.pc = "done", !.status = status, !.error = error, !.tokens = tokens]

\* Slot i is the next free slot.
NextFree(i) == i = Len(conc.reqs) + 1 /\ i <= MaxRequests

\* register up to the answer of findOne (lines 44-58).
registerFindOne(i, username, email, password) ==
    LET r == [FreeRequest EXCEPT !.op = "register", !.username = username,
                                 !.email = email, !.password = password]
    IN
    /\ NextFree(i)
    /\ conc' = [conc EXCEPT !.reqs = Append(@,
          IF missing(username) \/ missing(email) \/ missing(password)
          THEN Answer(r, sendError(401), "Username, email and password are required", NoTokens)
          ELSE IF findByEmailOrUsername(email, username) # {}
          THEN Answer(r, sendError(409), "User with this email or username already exists", NoTokens)
          ELSE [r EXCEPT !.pc = "found", !.passed = TRUE])]
    /\ UNCHANGED <<users, now, secretSet, last, hist, resources>>

\* register: bcrypt, then UserModel.create (lines 60-69); a duplicate key
\* error is caught and answered by lines 81-83.
registerCreate(i) ==
    LET r == conc.reqs[i] IN
    /\ r.op = "register" /\ r.pc = "found"
    /\ IF duplicateKey(r.email, r.username) THEN
           /\ users' = users
           /\ conc' = [conc EXCEPT !.reqs[i] =
                           Answer(r, sendError(400), "E11000 duplicate key error", NoTokens)]
       ELSE
           /\ Len(users) < MaxUsers
           /\ users' = Append(users, [username |-> r.username,
                                      email |-> normalizeEmail(r.email),
                                      password |-> hash(r.password),
                                      refreshToken |-> <<>>])
           /\ conc' = [conc EXCEPT !.reqs[i] = [r EXCEPT !.pc = "created", !.id = Len(users) + 1],
                                   !.ver = Append(@, 0)]
    /\ UNCHANGED <<now, secretSet, last, hist, resources>>

\* register: generateToken(user._id) (line 72).
registerGenerateToken(i) ==
    LET r == conc.reqs[i] IN
    /\ r.op = "register" /\ r.pc = "created"
    /\ conc' = [conc EXCEPT !.reqs[i] =
                    [r EXCEPT !.pc = "minted", !.tokens = generateToken(r.id, now)]]
    /\ UNCHANGED <<users, now, secretSet, last, hist, resources>>

\* register: findByIdAndUpdate(user._id, {refreshToken: [token]}) and the
\* 201 (lines 75-80); the update does not look at the version.
registerUpdate(i) ==
    LET r == conc.reqs[i] IN
    /\ r.op = "register" /\ r.pc = "minted"
    /\ users' = [users EXCEPT ![r.id].refreshToken = firstLedger(r.tokens.refreshToken)]
    /\ conc' = [conc EXCEPT !.reqs[i] = Answer(r, 201, "", r.tokens),
                            !.live = @ \cup {r.tokens.refreshToken}]
    /\ UNCHANGED <<now, secretSet, last, hist, resources>>

\* login up to the answer of findOne and of bcrypt.compare (lines 88-103).
loginFindOne(i, email, password) ==
    LET r == [FreeRequest EXCEPT !.op = "login", !.email = email, !.password = password]
        found == findByEmail(email)
        id == CHOOSE k \in found : TRUE
    IN
    /\ NextFree(i)
    /\ conc' = [conc EXCEPT !.reqs = Append(@,
          IF missing(email) \/ missing(password)
          THEN Answer(r, sendError(0), "Email and password are required", NoTokens)
          ELSE IF found = {}
          THEN Answer(r, sendError(0), authFailure("no user"), NoTokens)
          ELSE IF ~compare(password, users[id].password)
          THEN Answer(r, sendError(0), authFailure("wrong password"), NoTokens)
          ELSE [r EXCEPT !.pc = "found", !.id = id, !.ledger = users[id].refreshToken,
                         !.v = conc.ver[id]])]
    /\ UNCHANGED <<users, now, secretSet, last, hist, resources>>

\* login: generateToken(user._id) and the push on the loaded document
\* (lines 106-108).
loginGenerateToken(i) ==
    LET r == conc.reqs[i] IN
    /\ r.op = "login" /\ r.pc = "found"
    /\ conc' = [conc EXCEPT !.reqs[i] =
                    [r EXCEPT !.pc = "minted", !.tokens = generateToken(r.id, now)]]
    /\ UNCHANGED <<users, now, secretSet, last, hist, resources>>

\* login: user.save() and the 200 (lines 109-112).  The only change of the
\* loaded document is a push: save() sends it as a $push on the stored array
\* and increments the version without comparing it.
loginSave(i) ==
    LET r == conc.reqs[i] IN
    /\ r.op = "login" /\ r.pc = "minted"
    /\ users' = [users EXCEPT ![r.id].refreshToken = push(@, r.tokens.refreshToken)]
    /\ conc' = [conc EXCEPT !.reqs[i] = Answer(r, 200, "", r.tokens),
                            !.ver[r.id] = @ + 1,
                            !.live = @ \cup {r.tokens.refreshToken}]
    /\ UNCHANGED <<now, secretSet, last, hist, resources>>

\* refresh up to the answer of findById (lines 120-133).
refreshFindById(i, refreshToken) ==
    LET r == [FreeRequest EXCEPT !.op = "refresh", !.tok = refreshToken]
        id == refreshToken.userId
    IN
    /\ NextFree(i)
    /\ conc' = [conc EXCEPT !.reqs = Append(@,
          IF refreshToken.sig = "missing"
          THEN Answer(r, sendError(401), "Refresh token is required", NoTokens)
          ELSE IF verify(refreshToken, now) # "ok" \/ id \notin UserIds
          THEN Answer(r, sendError(401), "Invalid refresh token", NoTokens)
          ELSE [r EXCEPT !.pc = "found", !.id = id, !.ledger = users[id].refreshToken,
                         !.v = conc.ver[id]])]
    /\ UNCHANGED <<users, now, secretSet, last, hist, resources>>

\* refresh: the membership check on the loaded document, then the breach
\* clear or generateToken with filter and push, on the loaded document
\* (lines 135-148).
refreshGenerateToken(i) ==
    LET r == conc.reqs[i]
        tokens == generateToken(r.id, now)
    IN
    /\ r.op = "refresh" /\ r.pc = "found"
    /\ conc' = [conc EXCEPT !.reqs[i] =
          IF ~includes(r.ledger, r.tok)
          THEN [r EXCEPT !.pc = "clearing", !.passed = FALSE, !.ledger = breachLedger(@)]
          ELSE [r EXCEPT !.pc = "minted", !.passed = TRUE, !.tokens = tokens,
                         !.ledger = rotate(@, r.tok, tokens.refreshToken)]]
    /\ UNCHANGED <<users, now, secretSet, last, hist, resources>>

\* refresh: user.save() of the assigned array and the answer (lines 138-139,
\* 149-154); a VersionError is caught and answered 401.
refreshSave(i) ==
    LET r == conc.reqs[i] IN
    /\ r.op = "refresh" /\ r.pc \in {"clearing", "minted"}
    /\ IF versionConflict(r.id, r.v) THEN
           /\ users' = users
           /\ conc' = [conc EXCEPT !.reqs[i] =
                           Answer(r, sendError(401), "Invalid refresh token", NoTokens)]
       ELSE
           /\ users' = [users EXCEPT ![r.id].refreshToken = r.ledger]
           /\ conc' = [conc EXCEPT
                  !.reqs[i] = IF r.pc = "minted" THEN Answer(r, 200, "", r.tokens)
                              ELSE Answer(r, sendError(401), "Invalid refresh token", NoTokens),
                  !.ver[r.id] = @ + 1,
                  !.live = IF r.pc = "minted"
                           THEN (@ \ {r.tok}) \cup {r.tokens.refreshToken}
                           ELSE {t \in @ : t.userId # r.id}]
    /\ UNCHANGED <<now, secretSet, last, hist, resources>>

\* logout up to the membership check on the loaded document (lines 159-177).
logoutFindById(i, refreshToken) ==
    LET r == [FreeRequest EXCEPT !.op = "logout", !.tok = refreshToken]
        id == refreshToken.userId
    IN
    /\ NextFree(i)
    /\ conc' = [conc EXCEPT !.reqs = Append(@,
          IF refreshToken.sig = "missing"
          THEN Answer(r, sendError(401), "Refresh token is required", NoTokens)
          ELSE IF verify(refreshToken, now) # "ok"
          THEN Answer(r, sendError(logoutError(verify(refreshToken, now)).status),
                      logoutError(verify(refreshToken, now)).error, NoTokens)
          ELSE IF id \notin UserIds \/ ~includes(users[id].refreshToken, refreshToken)
          THEN Answer(r, sendError(401), "Invalid refresh token", NoTokens)
          ELSE [r EXCEPT !.pc = "found", !.passed = TRUE, !.id = id,
                         !.ledger = filterOut(users[id].refreshToken, refreshToken),
                         !.v = conc.ver[id]])]
    /\ UNCHANGED <<users, now, secretSet, last, hist, resources>>

\* logout: user.save() of the assigned array and the answer (lines 180-190);
\* a VersionError is not a JsonWebTokenError.
logoutSave(i) ==
    LET r == conc.reqs[i] IN
    /\ r.op = "logout" /\ r.pc = "found"
    /\ IF versionConflict(r.id, r.v) THEN
           /\ users' = users
           /\ conc' = [conc EXCEPT !.reqs[i] =
                           Answer(r, sendError(logoutError("VersionError").status),
                                  logoutError("VersionError").error, NoTokens)]
       ELSE
           /\ users' = [users EXCEPT ![r.id].refreshToken = r.ledger]
           /\ conc' = [conc EXCEPT
                  !.reqs[i] = Answer(r, 200, "Logged out successfully", NoTokens),
                  !.ver[r.id] = @ + 1,
                  !.live = @ \ {r.tok}]
    /\ UNCHANGED <<now, secretSet, last, hist, resources>>

\* The refresh tokens the server can have signed up to now.
RefreshTokens ==
    {generateToken(u, t).refreshToken : u \in 1..MaxUsers, t \in {x \in Times : x <= now}}

\* The slots of the requests that have started, and the next one.
Started == 1..Len(conc.reqs)
Slots == 1..MaxRequests

RegisterStep ==
    \E i \in Slots :
        \/ \E u \in Usernames \ {""}, e \in Emails \ {"", "A@x"} : registerFindOne(i, u, e, "pw1")
        \/ i \in Started /\ registerCreate(i)
        \/ i \in Started /\ registerGenerateToken(i)
        \/ i \in Started /\ registerUpdate(i)

LoginStep ==
    \E i \in Slots :
        \/ \E e \in Emails \ {"", "A@x"} : loginFindOne(i, e, "pw1")
        \/ i \in Started /\ loginGenerateToken(i)
        \/ i \in Started /\ loginSave(i)

RefreshStep ==
    \E i \in Slots :
        \/ \E tk \in RefreshTokens : refreshFindById(i, tk)
        \/ i \in Started /\ refreshGenerateToken(i)
        \/ i \in Started /\ refreshSave(i)

LogoutStep ==
    \E i \in Slots :
        \/ \E tk \in RefreshTokens : logoutFindById(i, tk)
        \/ i \in Started /\ logoutSave(i)

NextConcurrent == RegisterStep \/ LoginStep \/ RefreshStep \/ LogoutStep \/ Tick

SpecConcurrent == Init /\ [][NextConcurrent]_vars

\* ---------------------------------------------------- posts and comments
\* PostController and CommentController have the same updateItem and
\* deleteItem, each on its own collection; content stands for the fields of
\* a document other than its owner, userId.
Kinds == {"post", "comment"}

\* What is left at the _id of a deleted document.
NoResource == [kind |-> "none", userId |-> 0, content |-> ""]

\* this.model.findById(req.params.id) finds a document.
findResource(kind, id) == id \in 1..Len(resources) /\ resources[id].kind = kind

\* Mutant of isOwner: every authenticated user passes for the owner.
isOwner_anyone(doc, userId) == TRUE

\* post.userId.toString() === req.userId
isOwner(doc, userId) == doc.userId = userId

\* findByIdAndUpdate(id, req.body): the fields of the body replace the document's.
applyBody(doc, body) ==
    [doc EXCEPT !.content = IF body.content = "" THEN @ ELSE body.content,
                !.userId = IF body.userId = 0 THEN @ ELSE body.userId]

\* The 403 messages.
forbidden(kind, verb) ==
    IF verb = "update"
    THEN (IF kind = "post" THEN "You can only update your own posts"
          ELSE "You can only update your own comments")
    ELSE (IF kind = "post" THEN "You can only delete your own posts"
          ELSE "You can only delete your own comments")

\* The answer of a protected request: that of the middleware when it
\* refuses, that of the controller otherwise.
ResourceReply(op, kind, header, id, body, status, error, dbOps, fault) ==
    [authReply(header) EXCEPT !.op = op, !.kind = kind, !.id = id, !.body = body,
                              !.status = status, !.error = error,
                              !.dbOps = dbOps, !.fault = fault]

\* POST /post, POST /comment: authMiddleware, then the controller's create
\* with the body's content and userId, both required by the schema.
createItem(kind, header, body, failAt) ==
    LET auth == authReply(header)
        Reply(status, error, dbOps, fault) ==
            ResourceReply("createItem", kind, header, Len(resources) + 1, body,
                          status, error, dbOps, fault)
    IN
    /\ UNCHANGED <<users, now, secretSet, hist, conc>>
    /\ IF ~auth.next THEN
           /\ resources' = resources
           /\ last' = Reply(auth.status, auth.error, 0, "none")
       ELSE IF body.content = "" \/ body.userId = 0 THEN
           /\ resources' = resources
           /\ last' = Reply(400, "validation failed", 0, "none")
       ELSE IF failAt = 1 THEN
           /\ resources' = resources
           /\ last' = Reply(400, "store error", 1, "db")
       ELSE
           /\ Len(resources) < MaxResources
           /\ resources' = Append(resources, [kind |-> kind, userId |-> body.userId,
                                               content |-> body.content])
           /\ last' = Reply(201, "", 1, "none")

\* PUT /post/:id, PUT /comment/:id: authMiddleware, then updateItem.
updateItem(kind, header, id, body, failAt) ==
    LET auth == authReply(header)
        Reply(status, error, dbOps, fault) ==
            ResourceReply("updateItem", kind, header, id, body, status, error, dbOps, fault)
    IN
    /\ UNCHANGED <<users, now, secretSet, hist, conc>>
    /\ IF ~auth.next THEN
           /\ resources' = resources
           /\ last' = Reply(auth.status, auth.error, 0, "none")
       ELSE IF failAt = 1 THEN
           /\ resources' = resources
           /\ last' = Reply(400, "store error", 1, "db")
       ELSE IF ~findResource(kind, id) THEN
           /\ resources' = resources
           /\ last' = Reply(404, "Not found", 1, "none")
       ELSE IF ~isOwner(resources[id], auth.userId) THEN
           /\ resources' = resources
           /\ last' = Reply(403, forbidden(kind, "update"), 1, "none")
       ELSE IF failAt = 2 THEN
           /\ resources' = resources
           /\ last' = Reply(400, "store error", 2, "db")
       ELSE
           /\ resources' = [resources EXCEPT ![id] = applyBody(@, body)]
           /\ last' = Reply(200, "", 2, "none")

\* DELETE /post/:id, DELETE /comment/:id: authMiddleware, then deleteItem.
deleteItem(kind, header, id, failAt) ==
    LET auth == authReply(header)
        Reply(status, error, dbOps, fault) ==
            ResourceReply("deleteItem", kind, header, id, [content |-> "", userId |-> 0],
                          status, error, dbOps, fault)
    IN
    /\ UNCHANGED <<users, now, secretSet, hist, conc>>
    /\ IF ~auth.next THEN
           /\ resources' = resources
           /\ last' = Reply(auth.status, auth.error, 0, "none")
       ELSE IF failAt = 1 THEN
           /\ resources' = resources
           /\ last' = Reply(400, "store error", 1, "db")
       ELSE IF ~findResource(kind, id) THEN
           /\ resources' = resources
           /\ last' = Reply(404, "Not found", 1, "none")
       ELSE IF ~isOwner(resources[id], auth.userId) THEN
           /\ resources' = resources
           /\ last' = Reply(403, forbidden(kind, "delete"), 1, "none")
       ELSE IF failAt = 2 THEN
           /\ resources' = resources
           /\ last' = Reply(400, "store error", 2, "db")
       ELSE
           /\ resources' = [resources EXCEPT ![id] = NoResource]
           /\ last' = Reply(200, "Deleted successfully", 2, "none")

\* The headers of the requests on posts and comments: none, and the access
\* token of each user, minted at time 0.
ResourceHeaders ==
    {<<>>} \cup {<<"Bearer", generateToken(u, 0).token>> : u \in 1..MaxUsers}

\* The bodies of a create: content and userId, or neither.
CreateBodies ==
    {[content |-> "", userId |-> 0]} \cup {[content |-> "c1", userId |-> u] : u \in 1..MaxUsers}

\* The bodies of an update: a new content, or a new userId.
UpdateBodies ==
    {[content |-> "c2", userId |-> 0]} \cup {[content |-> "", userId |-> u] : u \in 1..MaxUsers}

CreateItem ==
    /\ Idle
    /\ \E k \in Kinds, h \in ResourceHeaders, b \in CreateBodies, f \in 0..1 : createItem(k, h, b, f)

UpdateItem ==
    /\ Idle
    /\ \E k \in Kinds, h \in ResourceHeaders, id \in 1..MaxResources, b \in UpdateBodies, f \in 0..2 :
          updateItem(k, h, id, b, f)

DeleteItem ==
    /\ Idle
    /\ \E k \in Kinds, h \in ResourceHeaders, id \in 1..MaxResources, f \in 0..2 :
          deleteItem(k, h, id, f)

NextResources == CreateItem \/ UpdateItem \/ DeleteItem \/ Done

SpecResources == Init /\ [][NextResources]_vars

\* ------------------------------------------------------------- accounts
\* The life of accounts: users register, log in, refresh, log out, call
\* protected endpoints and are deleted; every store operation succeeds and
\* the signing secret stays configured.
AccountRegister ==
    /\ Idle
    /\ \E u \in Usernames \ {""}, e \in Emails \ {"", "A@x"} : register(u, e, "pw1", 0)

AccountLogin ==
    /\ Idle
    /\ \E e \in Emails \ {"", "A@x"} : login(e, "pw1", 0)

AccountRefresh ==
    /\ Idle
    /\ \E tk \in SignedTokens : refresh(tk, 0)

AccountLogout ==
    /\ Idle
    /\ \E tk \in SignedTokens : logout(tk, 0)

\* An account is deleted.
DeleteUser ==
    /\ Idle
    /\ \E id \in UserIds : deleteUser(id)

NextAccounts ==
    \/ AccountRegister \/ AccountLogin \/ AccountRefresh \/ AccountLogout
    \/ Authenticate \/ DeleteUser \/ Done \/ Tick \/ TickDay

SpecAccounts == Init /\ [][NextAccounts]_vars

\* ------------------------------------------------------------ scenarios
\* One client on an empty store: it registers, then makes the requests of
\* its script, each with the first refresh token it was given (r1).
ScenarioA == <<"register", "login", "refresh", "refresh">>
ScenarioB == <<"register", "logout", "refresh">>

\* The next request of the script is op.
ScriptOp(op) ==
    /\ Idle
    /\ hist.step < Len(hist.script)
    /\ hist.script[hist.step + 1] = op

ScriptRegister ==
    /\ ScriptOp("register")
    /\ \E u \in Usernames \ {""}, e \in Emails \ {""} : register(u, e, "pw1", 0)

ScriptLogin ==
    /\ ScriptOp("login")
    /\ login(users[1].email, "pw1", 0)

ScriptRefresh ==
    /\ ScriptOp("refresh")
    /\ refresh(hist.issued[1], 0)

ScriptLogout ==
    /\ ScriptOp("logout")
    /\ logout(hist.issued[1], 0)

\* The client has the response: it keeps the refresh token it was given.
ScriptDone ==
    /\ ~Idle
    /\ last' = NoRequest
    /\ hist' = [hist EXCEPT
                   !.step = @ + 1,
                   !.issued = IF last.tokens = NoTokens THEN @
                              ELSE Append(@, last.tokens.refreshToken)]
    /\ UNCHANGED <<users, now, secretSet, resources, conc>>

InitScenario ==
    /\ users = <<>>
    /\ now = 0
    /\ secretSet = TRUE
    /\ last = NoRequest
    /\ resources = <<>>
    /\ conc = NoConcurrency
    /\ \E sc \in {ScenarioA, ScenarioB} :
          hist = [tok |-> MissingToken, refreshed |-> FALSE, left |-> FALSE,
                  loggedOut |-> FALSE,
                  script |-> sc, step |-> 0, issued |-> <<>>]

NextScenario ==
    ScriptRegister \/ ScriptLogin \/ ScriptRefresh \/ ScriptLogout \/ ScriptDone \/ Tick

SpecScenario == InitScenario /\ [][NextScenario]_vars

TypeOK ==
    /\ Len(users) <= MaxUsers
    /\ Sessions <= MaxSessions
    /\ now \in Times

\* ================================================================ claims
\* The request whose response is in last was handled without a store
\* operation failing and with the signing secret configured.
Handled(op) == last.op = op /\ last.fault = "none"

\* tok is correctly signed and has not expired.
Unexpired(tok) == tok.sig = "valid" /\ (now \div 1000) < tok.exp

\* After the request of last: the ledger of the user its token names.
After == LedgerOf(last.tok.userId)

\* seq with every element equal to x removed, the rest in order.
RECURSIVE WithoutAll(_, _)
WithoutAll(seq, x) ==
    IF seq = <<>> THEN <<>>
    ELSE IF Head(seq) = x THEN WithoutAll(Tail(seq), x)
    ELSE <<Head(seq)>> \o WithoutAll(Tail(seq), x)

Occurs(seq, x) == \E k \in DOMAIN seq : seq[k] = x

\* C1: once a refresh has accepted refresh token T, no later refresh(T)
\* succeeds: each fails with 401 "Invalid refresh token" and leaves the ledger
\* of T's owner empty.
C1_SingleUse ==
    [][(Idle /\ last'.op = "refresh" /\ last'.tok = hist.tok /\ hist.refreshed
        /\ last'.fault = "none")
       => (/\ last'.status = 401
           /\ last'.error = "Invalid refresh token"
           /\ users'[hist.tok.userId].refreshToken = <<>>)]_vars

\* C2: a refresh with a correctly signed, unexpired token of an existing
\* user that is not in that user's ledger is answered 401 and leaves that
\* ledger empty, whatever it held before.
C2_BreachClearsAll ==
    (/\ Handled("refresh")
     /\ Unexpired(last.tok)
     /\ last.tok.userId \in UserIds
     /\ ~Occurs(last.before, last.tok))
    => (last.status = 401 /\ last.error = "Invalid refresh token" /\ After = <<>>)

C2_Witness ==
    /\ Handled("refresh")
    /\ Unexpired(last.tok)
    /\ last.tok.userId \in UserIds
    /\ ~Occurs(last.before, last.tok)
    /\ Len(last.before) >= 2
    /\ After = <<>>

\* C3: after a successful refresh(T) returning T', the ledger is the ledger
\* before without every T, followed by T'; T is not in it and T' is.
C3_RotationEffect ==
    (last.op = "refresh" /\ last.status = 200)
    => (/\ After = Append(WithoutAll(last.before, last.tok), last.tokens.refreshToken)
        /\ ~Occurs(After, last.tok)
        /\ Occurs(After, last.tokens.refreshToken))

\* C4: the refresh token returned by a successful refresh(T) differs from T.
C4_RotationDistinct ==
    (last.op = "refresh" /\ last.status = 200) => last.tokens.refreshToken # last.tok

\* C5: a successful logout(T) removes exactly the entries equal to T from the
\* ledger of T's user, keeps every other entry in order, and changes nothing
\* else in the store.
C5_LogoutNarrow ==
    [][(Idle /\ last'.op = "logout" /\ last'.status = 200)
       => LET id == last'.tok.userId IN
          /\ id \in UserIds
          /\ users' = [users EXCEPT ![id].refreshToken = WithoutAll(@, last'.tok)]
          /\ \A k \in DOMAIN users[id].refreshToken :
                users[id].refreshToken[k] # last'.tok
                => Occurs(users'[id].refreshToken, users[id].refreshToken[k])]_vars

C5_Witness ==
    /\ last.op = "logout" /\ last.status = 200
    /\ Len(last.before) >= 2
    /\ After # <<>>
    /\ \E j \in UserIds : j # last.tok.userId /\ users[j].refreshToken # <<>>

\* C6: logout with a correctly signed, unexpired token of an existing user
\* that is not in that user's ledger is answered 401 "Invalid refresh token"
\* and changes no ledger.
C6_LogoutUnknownToken ==
    [][(/\ Idle /\ last'.op = "logout" /\ last'.fault = "none"
        /\ Unexpired(last'.tok)
        /\ last'.tok.userId \in UserIds
        /\ ~Occurs(LedgerOf(last'.tok.userId), last'.tok))
       => (last'.status = 401 /\ last'.error = "Invalid refresh token" /\ users' = users)]_vars

C6_Witness ==
    /\ Handled("logout") /\ last.status = 401
    /\ Unexpired(last.tok)
    /\ last.tok.userId \in UserIds
    /\ ~Occurs(last.before, last.tok)
    /\ Len(last.before) >= 2
    /\ After = last.before

\* C7: refresh(T) and logout(T) succeed exactly when T is in the ledger of the
\* user it names and has not expired.
C7_UsableIff ==
    LET active == Occurs(last.before, last.tok) /\ (now \div 1000) < last.tok.exp IN
    /\ (last.op \in {"refresh", "logout"} /\ last.status = 200) => active
    /\ ((Handled("refresh") \/ Handled("logout")) /\ active) => last.status = 200

\* A token of the ledger that has expired is refused.
C7_Witness ==
    /\ Handled("refresh") /\ last.status = 401
    /\ Occurs(last.before, last.tok)
    /\ (now \div 1000) >= last.tok.exp

\* C8: a refresh token that was removed from its owner's ledger is in no
\* ledger afterwards.
C8_NoReturn == hist.left => ~InSomeLedger(users, hist.tok)

\* A required field of the request of r is absent or empty.
MissingField(r) ==
    CASE r.op = "register" -> r.username = "" \/ r.email = "" \/ r.password = ""
      [] r.op = "login" -> r.email = "" \/ r.password = ""
      [] r.op \in {"refresh", "logout"} -> r.tok.sig = "missing"
      [] OTHER -> FALSE

\* The validation error of each operation.
ValidationError(r) ==
    CASE r.op = "register" ->
            r.status = 401 /\ r.error = "Username, email and password are required"
      [] r.op = "login" -> r.status = 400 /\ r.error = "Email and password are required"
      [] r.op \in {"refresh", "logout"} ->
            r.status = 401 /\ r.error = "Refresh token is required"
      [] OTHER -> FALSE

\* C9: a request with a required field missing or empty gets the validation
\* error and performs no operation on the user store.
C9_ValidationFirst ==
    [][(Idle /\ MissingField(last'))
       => (ValidationError(last') /\ last'.dbOps = 0 /\ last'.tokens = NoTokens
           /\ users' = users)]_vars

C9_Witness ==
    /\ last.op = "register" /\ last.username # "" /\ last.email # "" /\ last.password = ""
    /\ last.status = 401 /\ last.dbOps = 0
    /\ users # <<>>

\* C10: a login with an email of no user and a login with a wrong password
\* get the same response, 400 "Invalid email or password", and change no
\* ledger.
C10_GenericAuthFailure ==
    [][(/\ Idle /\ last'.op = "login" /\ last'.fault = "none"
        /\ last'.email # "" /\ last'.password # ""
        /\ \/ findByEmail(last'.email) = {}
           \/ \E i \in findByEmail(last'.email) : users[i].password # hash(last'.password))
       => (/\ last'.status = 400
           /\ last'.error = "Invalid email or password"
           /\ last'.tokens = NoTokens
           /\ users' = users)]_vars

C10_Witness ==
    /\ Handled("login") /\ last.status = 400
    /\ last.password # ""
    /\ \E i \in UserIds :
          /\ users[i].email = normalizeEmail(last.email)
          /\ users[i].password # hash(last.password)
          /\ users[i].refreshToken # <<>>

\* The token of request r is invalid in one of the five ways: malformed,
\* wrongly signed, expired, naming no user, or absent from its user's ledger.
InvalidToken(r) ==
    \/ r.tok.sig \in {"malformed", "bad"}
    \/ r.tok.sig = "valid" /\ (now \div 1000) >= r.tok.exp
    \/ r.tok.sig = "valid" /\ r.tok.userId \notin UserIds
    \/ r.tok.sig = "valid" /\ ~Occurs(r.before, r.tok)

\* C11: on refresh and on logout every invalid-token case gets the one
\* response 401 "Invalid refresh token" with no token pair, so the response
\* does not tell the cases apart.
C11_OneInvalidAnswer ==
    ((Handled("refresh") \/ Handled("logout")) /\ InvalidToken(last))
    => (last.status = 401 /\ last.error = "Invalid refresh token" /\ last.tokens = NoTokens)

\* A logout with an expired token that is still in the ledger.
C11_Witness ==
    /\ Handled("logout") /\ last.status = 401
    /\ last.tok.sig = "valid" /\ (now \div 1000) >= last.tok.exp
    /\ Occurs(last.before, last.tok)

\* C12: when register answers 201, the user it created is the last of the
\* store, has the request's username and email and the hashed password, the
\* token pair returned carries that user's id, and the user's ledger is
\* exactly the returned refresh token; the create, the mint and the ledger
\* update were its store operations, in that order.
C12_RegisterEffect ==
    (last.op = "register" /\ last.status = 201)
    => LET id == Len(users) IN
       /\ id >= 1
       /\ users[id].username = last.username
       /\ users[id].email = normalizeEmail(last.email)
       /\ users[id].password = hash(last.password)
       /\ last.tokens.token.userId = id
       /\ last.tokens.refreshToken.userId = id
       /\ last.tokens.refreshToken.sig = "valid"
       /\ users[id].refreshToken = <<last.tokens.refreshToken>>
       /\ last.dbOps = 3

\* The second user registers while the first holds a session.
C12_Witness ==
    /\ last.op = "register" /\ last.status = 201
    /\ Len(users) = 2
    /\ users[1].refreshToken # <<>>
    /\ users[2].refreshToken = <<last.tokens.refreshToken>>

\* C13: a register whose email or whose username is that of an existing user
\* is answered 409 with the conflict error and no token pair, and leaves the
\* store as it was: no user is created and no record or ledger is changed.
C13_ConflictChangesNothing ==
    [][(/\ Idle /\ last'.op = "register" /\ last'.fault = "none"
        /\ last'.username # "" /\ last'.email # "" /\ last'.password # ""
        /\ \E i \in UserIds : users[i].email = last'.email \/ users[i].username = last'.username)
       => (/\ last'.status = 409
           /\ last'.error = "User with this email or username already exists"
           /\ last'.tokens = NoTokens
           /\ users' = users)]_vars

\* A register with a new email and the username of a user that holds a session.
C13_Witness ==
    /\ Handled("register") /\ last.status = 409
    /\ \E i \in UserIds :
          /\ users[i].username = last.username
          /\ users[i].email # normalizeEmail(last.email)
          /\ users[i].refreshToken # <<>>
    /\ \A i \in UserIds : users[i].email # normalizeEmail(last.email)

\* C14: when login answers 200, the ledger of the user that logged in is its
\* ledger before the request followed by the returned refresh token: one
\* entry longer, nothing removed; the token pair carries that user's id.
C14_LoginAppends ==
    (last.op = "login" /\ last.status = 200)
    => /\ findByEmail(last.email) # {}
       /\ \A i \in findByEmail(last.email) :
             /\ users[i].refreshToken = last.before \o <<last.tokens.refreshToken>>
             /\ Len(users[i].refreshToken) = Len(last.before) + 1
             /\ last.tokens.refreshToken.userId = i
             /\ last.tokens.token.userId = i

\* The second login after the register: the ledger reaches length 3.
C14_Witness ==
    /\ last.op = "login" /\ last.status = 200
    /\ Len(last.before) = 2
    /\ \E i \in findByEmail(last.email) : Len(users[i].refreshToken) = 3

\* C15: scenario A.  The register leaves the ledger [r1]; the login [r1, r2];
\* the refresh with r1 succeeds, returns r3 and leaves [r2, r3]; the second
\* refresh with r1 fails and leaves the ledger empty, and r2 and r3 are then
\* in no ledger.
C15_ScenarioA ==
    (hist.script = ScenarioA)
    => LET ledger == LedgerOf(1)
           given == last.tokens.refreshToken
       IN
       /\ (hist.step = 0 /\ ~Idle) => (last.status = 201 /\ ledger = <<given>>)
       /\ (hist.step = 1 /\ ~Idle) => (last.status = 200 /\ ledger = <<hist.issued[1], given>>)
       /\ (hist.step = 2 /\ ~Idle) => (last.status = 200 /\ ledger = <<hist.issued[2], given>>)
       /\ (hist.step = 3 /\ ~Idle) => (last.status = 401 /\ ledger = <<>>)
       /\ (hist.step = 4 /\ Len(hist.issued) >= 3)
          => (~InSomeLedger(users, hist.issued[2]) /\ ~InSomeLedger(users, hist.issued[3]))

\* C16: once a logout has accepted refresh token T, every later refresh(T)
\* and every later logout(T) is answered 401, whatever requests were handled
\* before or since.
C16_StaysRevoked ==
    [][(/\ Idle /\ hist.loggedOut
        /\ last'.op \in {"refresh", "logout"}
        /\ last'.tok = hist.tok
        /\ last'.fault = "none")
       => last'.status = 401]_vars

C18_LogoutErrorKinds ==
    (last.op = "logout" /\ last.tok.sig # "missing")
    => /\ (last.fault = "none" /\ InvalidToken(last))
          => (last.status = 401 /\ last.error = "Invalid refresh token")
       /\ (last.fault = "db") => (last.status = 500 /\ last.error = "Logout failed")
       /\ (last.status = 401) => (last.fault = "none" /\ InvalidToken(last))
       /\ (last.status = 500) => (last.fault \in {"db", "secret"})

\* The save of a logout with a token of the ledger fails.
C18_Witness ==
    /\ last.op = "logout" /\ last.fault = "db" /\ last.dbOps = 2
    /\ last.status = 500
    /\ Occurs(last.before, last.tok)
    /\ After = last.before

\* C19: a register, login or refresh in which a store operation failed is
\* answered with a 500-class status, never with 400 or 401.
C19_StoreFailureIs500 ==
    (last.op \in {"register", "login", "refresh"} /\ last.fault = "db")
    => (last.status >= 500 /\ last.status <= 599)

\* C20: while no signing secret is configured, register, login, refresh and
\* logout are answered with an error and no token pair, and the middleware
\* lets no bearer token through.
C20_SecretRequired ==
    (~secretSet /\ ~Idle)
    => /\ (last.op \in {"register", "login", "refresh", "logout"})
          => (last.status >= 400 /\ last.tokens = NoTokens)
       /\ (last.op = "authenticate") => ~last.next

\* The kind a token was minted as, told by its lifetime.
MintedAsAccess(tok) == tok.sig = "valid" /\ tok.exp - tok.iat = JWT_EXPIRES_IN
MintedAsRefresh(tok) == tok.sig = "valid" /\ tok.exp - tok.iat = JWT_REFRESH_EXPIRES_IN

\* C21: a token minted as an access token never makes refresh or logout
\* succeed, and a token minted as a refresh token is never let through by
\* the middleware.
C21_KindsApart ==
    /\ (last.op \in {"refresh", "logout"} /\ MintedAsAccess(last.tok)) => last.status # 200
    /\ (last.op = "authenticate" /\ MintedAsRefresh(last.tok)) => ~last.next

\* C22: the middleware decides by the first failing check: no Authorization
\* header, 401 "No token provided"; not two parts or first part not "Bearer",
\* 401 "Invalid token format"; token expired, 401 "Token expired"; token
\* invalid otherwise, 401 "Invalid token".  next is called, with userId set
\* from the token and no response sent, exactly when all checks pass; on a
\* rejection one response is sent, next is not called and userId is unset.
C22_MiddlewareOrder ==
    (last.op = "authenticate")
    => LET h == last.header
           wellFormed == Len(h) = 2 /\ h[1] = "Bearer"
           signed == wellFormed /\ h[2].sig = middlewareSecret
           expired == signed /\ (now \div 1000) >= h[2].exp
       IN
       /\ (h = <<>>) => (last.status = 401 /\ last.error = "Access denied. No token provided.")
       /\ (h # <<>> /\ ~wellFormed)
          => (last.status = 401 /\ last.error = "Access denied. Invalid token format.")
       /\ expired => (last.status = 401 /\ last.error = "Access denied. Token expired.")
       /\ (wellFormed /\ ~signed)
          => (last.status = 401 /\ last.error = "Access denied. Invalid token.")
       /\ last.next <=> (signed /\ ~expired)
       /\ last.next => (last.status = 0 /\ last.error = "" /\ last.userId = h[2].userId)
       /\ ~last.next => (last.status = 401 /\ last.userId = 0)

\* A well-signed, unexpired token under the scheme in lower case is refused
\* for its format.
C22_Witness ==
    /\ last.op = "authenticate"
    /\ Len(last.header) = 2 /\ last.header[1] = "bearer"
    /\ jwtVerify(last.header[2], middlewareSecret, now) = "ok"
    /\ last.status = 401 /\ last.error = "Access denied. Invalid token format."

\* C23: the middleware lets every correctly signed, unexpired access token
\* through, whatever the store holds: whether or not the user of the token
\* exists, was deleted, or has any refresh token left in its ledger.
C23_StatelessAccess ==
    (/\ last.op = "authenticate"
     /\ secretSet
     /\ Len(last.header) = 2 /\ last.header[1] = "Bearer"
     /\ MintedAsAccess(last.header[2])
     /\ (now \div 1000) < last.header[2].exp)
    => (last.next /\ last.userId = last.header[2].userId)

\* The access token of a deleted user is let through.
C23_Witness ==
    /\ last.op = "authenticate" /\ last.next
    /\ MintedAsAccess(last.tok)
    /\ last.tok.userId \in 1..Len(users)
    /\ users[last.tok.userId] = Tombstone

AuthOps == {"register", "login", "refresh", "logout"}

\* The store operations a request of AuthController can make at most.
MaxDbOps(op) == IF op = "register" THEN 3 ELSE 2

C28_RegisterAllOrNothing ==
    [][(Idle /\ last'.op = "register" /\ last'.status >= 400) => users' = users]_vars

\* C30: a register, login, refresh or logout request changes the record of
\* at most one user: the user it creates, the user with the email of the
\* login, or the user named in the presented token; the records of all other
\* users stay as they were, and every ledger entry of a user is a refresh
\* token that carries that user's id.
C30_PerUserIsolation ==
    [][(Idle /\ last'.op \in AuthOps /\ users' # users) =>
          /\ Len(users') >= Len(users)
          /\ \A i \in 1..Len(users) :
                (users'[i] # users[i]) =>
                    /\ last'.op # "register"
                    /\ last'.op = "login" => users[i].email = normalizeEmail(last'.email)
                    /\ last'.op \in {"refresh", "logout"} => i = last'.tok.userId
                    /\ \A j \in 1..Len(users) : j # i => users'[j] = users[j]
                    /\ Len(users') = Len(users)
          /\ \A i \in 1..Len(users') : \A k \in 1..Len(users'[i].refreshToken) :
                /\ users'[i].refreshToken[k].userId = i
                /\ MintedAsRefresh(users'[i].refreshToken[k])]_vars

\* The second user's token is rotated while the first user holds a session.
C30_Witness ==
    /\ last.op = "refresh" /\ last.status = 200 /\ last.tok.userId = 2
    /\ Len(users) = 2
    /\ Len(users[1].refreshToken) >= 1
    /\ users[2].refreshToken = <<last.tokens.refreshToken>>

\* Two different slots.
Pair(i, j) == i # j

\* C27: a refresh token returned in a success response stays in its user's
\* ledger until a refresh or logout accepts it or a breach clear empties the
\* ledger, however the requests interleave.
C27_NoSessionLost ==
    \A t \in conc.live : includes(users[t.userId].refreshToken, t)

\* C25: when two refresh requests with the same ledger token both pass the
\* membership check before either writes, both succeed, and once both have
\* answered the refresh tokens they returned are both in the user's ledger
\* and the presented token is not.
C25_BenignDoubleIssue ==
    \A i, j \in Started :
        LET a == conc.reqs[i]
            b == conc.reqs[j]
        IN
        (/\ Pair(i, j)
         /\ a.op = "refresh" /\ b.op = "refresh" /\ a.tok = b.tok
         /\ a.pc = "done" /\ b.pc = "done"
         /\ a.passed /\ b.passed
         /\ a.v = b.v)
        => /\ a.status = 200 /\ b.status = 200
           /\ includes(users[a.id].refreshToken, a.tokens.refreshToken)
           /\ includes(users[a.id].refreshToken, b.tokens.refreshToken)
           /\ ~includes(users[a.id].refreshToken, a.tok)

\* C29: when two register requests with the same email or the same username
\* both run their existence check before either creates the user, exactly
\* one of them creates a user and the other is answered with the 409
\* conflict response.
C29_ConcurrentDuplicate ==
    \A i, j \in Started :
        LET a == conc.reqs[i]
            b == conc.reqs[j]
        IN
        (/\ Pair(i, j)
         /\ a.op = "register" /\ b.op = "register"
         /\ a.pc = "done" /\ b.pc = "done"
         /\ a.passed /\ b.passed
         /\ (normalizeEmail(a.email) = normalizeEmail(b.email) \/ a.username = b.username)
         /\ a.status = 201)
        => /\ b.id = 0
           /\ b.status = 409
           /\ b.error = "User with this email or username already exists"
====
